---- MODULE Spec2Model ----
(***************************************************************************)
(* Model of Creating_Test_PII_Data.py: the interactive controller          *)
(* (user_input_options and the __main__ block), the directory provisioner, *)
(* the record generator, the four exporters with their collision loops,    *)
(* and the page-layout loop of export_to_pdf.                              *)
(*                                                                         *)
(* Text typed at a prompt is a sequence of one-character strings, so that  *)
(* strip(), lower(), split(','), isdigit(), int() and float() are computed *)
(* rather than assumed.  A float size is kept in thousandths of a MB (the  *)
(* inputs have at most three decimals).  A record's five fields are opaque *)
(* Faker output; the batch is represented by its length.                   *)
(***************************************************************************)
EXTENDS Integers, Sequences, FiniteSets, TLC

(* ------------------------------------------------------------------ *)
(* Program constants                                                   *)
(* ------------------------------------------------------------------ *)
average_bytes_per_record == 125
LargeThreshold == 11700
LetterHeight == 792
TopMargin == 30
LeftMargin == 30
BottomLimit == 100
LineHeight == 15
LinesPerEntry == 6

(* Largest batch whose PDF layout is stepped record by record. *)
MaxBatch == 20

(* ------------------------------------------------------------------ *)
(* Text helpers: str.strip, str.lower, str.split, str.isdigit          *)
(* ------------------------------------------------------------------ *)
Digits == <<"0", "1", "2", "3", "4", "5", "6", "7", "8", "9">>

IsDigitChar(c) == \E i \in 1..10 : Digits[i] = c

DigitVal(c) == (CHOOSE i \in 1..10 : Digits[i] = c) - 1

IsSpace(c) == c = " "

RECURSIVE LStrip(_)
LStrip(s) ==
  IF s # <<>> /\ IsSpace(Head(s)) THEN LStrip(Tail(s)) ELSE s

RECURSIVE RStrip(_)
RStrip(s) ==
  IF s # <<>> /\ IsSpace(s[Len(s)]) THEN RStrip(SubSeq(s, 1, Len(s) - 1)) ELSE s

Strip(s) == RStrip(LStrip(s))

LowerChar(c) ==
  CASE c = "Y" -> "y"
    [] c = "E" -> "e"
    [] c = "S" -> "s"
    [] c = "N" -> "n"
    [] c = "O" -> "o"
    [] OTHER -> c

Lower(s) == [i \in 1..Len(s) |-> LowerChar(s[i])]

(* s.split(sep): the pieces between separators, empty pieces kept. *)
RECURSIVE SplitFrom(_, _, _)
SplitFrom(s, sep, cur) ==
  IF s = <<>> THEN <<cur>>
  ELSE IF Head(s) = sep THEN <<cur>> \o SplitFrom(Tail(s), sep, <<>>)
  ELSE SplitFrom(Tail(s), sep, Append(cur, Head(s)))

Split(s, sep) == SplitFrom(s, sep, <<>>)

(* str.isdigit(): non-empty and every character a digit. *)
IsDigitStr(s) == s # <<>> /\ \A i \in 1..Len(s) : IsDigitChar(s[i])

RECURSIVE DigitsValue(_)
DigitsValue(s) ==
  IF s = <<>> THEN 0
  ELSE 10 * DigitsValue(SubSeq(s, 1, Len(s) - 1)) + DigitVal(s[Len(s)])

(* int(text): surrounding blanks and one sign allowed; ok = FALSE is ValueError. *)
ParseInt(text) ==
  LET s == Strip(text)
      signed == s # <<>> /\ Head(s) \in {"-", "+"}
      body == IF signed THEN Tail(s) ELSE s
  IN IF IsDigitStr(body)
       THEN [ok |-> TRUE,
             val |-> IF signed /\ Head(s) = "-" THEN -DigitsValue(body)
                     ELSE DigitsValue(body)]
       ELSE [ok |-> FALSE, val |-> 0]

(* Thousandths denoted by a fractional part of at most three digits. *)
FracMilli(f) ==
  CASE Len(f) = 0 -> 0
    [] Len(f) = 1 -> 100 * DigitsValue(f)
    [] Len(f) = 2 -> 10 * DigitsValue(f)
    [] OTHER -> DigitsValue(SubSeq(f, 1, 3))

(* float(text) for decimal literals [sign] digits [. digits], in thousandths; *)
(* ok = FALSE is ValueError.                                                  *)
ParseFloat(text) ==
  LET s == Strip(text)
      signed == s # <<>> /\ Head(s) \in {"-", "+"}
      body == IF signed THEN Tail(s) ELSE s
      parts == Split(body, ".")
      ip == parts[1]
      fp == IF Len(parts) = 2 THEN parts[2] ELSE <<>>
      wellformed ==
        /\ Len(parts) \in {1, 2}
        /\ ip = <<>> \/ IsDigitStr(ip)
        /\ fp = <<>> \/ IsDigitStr(fp)
        /\ ip # <<>> \/ fp # <<>>
      mag == 1000 * DigitsValue(ip) + FracMilli(fp)
  IN IF wellformed
       THEN [ok |-> TRUE, val |-> IF signed /\ Head(s) = "-" THEN -mag ELSE mag]
       ELSE [ok |-> FALSE, val |-> 0]

(* int(x) on a quotient: truncation toward zero. *)
IntTrunc(num, den) ==
  IF num >= 0 THEN num \div den ELSE -((-num) \div den)

(* ------------------------------------------------------------------ *)
(* Size estimator, labels and file names                               *)
(* ------------------------------------------------------------------ *)

(* Mutant of SizeToRecords: a megabyte taken as 1000 * 1000 bytes. *)
SizeToRecordsDecimalMB(ms) ==
  IntTrunc(ms * 1000 * 1000, 1000 * average_bytes_per_record)

(* int((file_size_mb * 1024 * 1024) / average_bytes_per_record), *)
(* file_size_mb = ms / 1000.                                      *)
SizeToRecords(ms) ==
  IntTrunc(ms * 1024 * 1024, 1000 * average_bytes_per_record)

(* Mutant of NeedsConfirm: the threshold itself is let through. *)
NeedsConfirmStrict(n) == n > LargeThreshold

(* if num_records >= (11700) *)
NeedsConfirm(n) == n >= LargeThreshold

(* f"{num_records}_records", "custom_size", f"{file_size_mb}MB" *)
RecordsLabel(n) == [kind |-> "records", n |-> n]
CustomLabel == [kind |-> "custom_size", n |-> 0]
SizeLabel(ms) == [kind |-> "MB", n |-> ms]

CountModeLabel(pref, n) ==
  IF pref = <<"1">> THEN RecordsLabel(n) ELSE CustomLabel

SizeModeLabel(pref, ms, n) ==
  IF pref = <<"2">> THEN SizeLabel(ms) ELSE RecordsLabel(n)

(* A file name customer_responses_<label><disambiguators>.<ext>: dis is the *)
(* sequence of "(n)" groups standing between the label and the extension.   *)
FileName(label, extension) ==
  [label |-> label, dis |-> <<>>, ext |-> extension]

(* os.path.splitext(filename): everything before the last dot, and the rest. *)
SplitExt(filename) ==
  [base |-> [label |-> filename.label, dis |-> filename.dis],
   extension |-> filename.ext]

(* f"{base}({counter}){extension}" *)
WithCounter(filename, counter) ==
  LET se == SplitExt(filename)
  IN [label |-> se.base.label,
      dis |-> Append(se.base.dis, counter),
      ext |-> se.extension]

(* os.path.join(directory, filename) *)
Join(directory, filename) == [dir |-> directory, name |-> filename]

(* The printed name alone, as export_to_pdf and export_to_text print it. *)
BareName(filename) == [dir |-> "", name |-> filename]

(* ------------------------------------------------------------------ *)
(* Collision loops of the exporters                                    *)
(* ------------------------------------------------------------------ *)

(* export_to_excel / export_to_word: each candidate is built from the *)
(* filename the caller passed.                                         *)
RECURSIVE FilepathLoop(_, _, _, _, _)
FilepathLoop(existing, directory, filename, filepath, counter) ==
  IF filepath \in existing
    THEN FilepathLoop(existing, directory, filename,
                      Join(directory, WithCounter(filename, counter)),
                      counter + 1)
    ELSE filepath

(* export_to_pdf / export_to_text: the loop reassigns filename itself. *)
RECURSIVE FilenameLoop(_, _, _, _)
FilenameLoop(existing, directory, filename, counter) ==
  IF Join(directory, filename) \in existing
    THEN FilenameLoop(existing, directory, WithCounter(filename, counter),
                      counter + 1)
    ELSE filename

(* canvas.Canvas(os.path.join(directory, filename)): the path the canvas *)
(* saves to, fixed from the filename the caller passed.                  *)
PdfCanvasPath(directory, filename) == Join(directory, filename)

(* ------------------------------------------------------------------ *)
(* Directory provisioner, record generator, format table               *)
(* ------------------------------------------------------------------ *)
base_path == "Testing_PII_Data"
excel_dir == "Testing_PII_Data/Excel Files"
word_dir == "Testing_PII_Data/Word Files"
pdf_dir == "Testing_PII_Data/PDF Files"
text_dir == "Testing_PII_Data/Text Files"

FormatDirs == {excel_dir, word_dir, pdf_dir, text_dir}

(* len([... for _ in range(record_count)]) *)
generate_data(record_count) == IF record_count > 0 THEN record_count ELSE 0

file_types_functions(k) ==
  CASE k = 1 -> [func |-> "export_to_excel", dir |-> excel_dir, ext |-> "xlsx"]
    [] k = 2 -> [func |-> "export_to_word", dir |-> word_dir, ext |-> "docx"]
    [] k = 3 -> [func |-> "export_to_pdf", dir |-> pdf_dir, ext |-> "pdf"]
    [] k = 4 -> [func |-> "export_to_text", dir |-> text_dir, ext |-> "txt"]

(* [int(c.strip()) for c in file_types.split(',')                        *)
(*    if c.strip().isdigit() and int(c.strip()) in range(1, 5)]          *)
RECURSIVE KeepValid(_)
KeepValid(pieces) ==
  IF pieces = <<>> THEN <<>>
  ELSE LET c == Strip(Head(pieces))
       IN IF IsDigitStr(c) /\ DigitsValue(c) \in 1..4
            THEN <<DigitsValue(c)>> \o KeepValid(Tail(pieces))
            ELSE KeepValid(Tail(pieces))

SelectedFileTypes(file_types) ==
  IF file_types = <<"0">> THEN <<1, 2, 3, 4>>
  ELSE KeepValid(Split(file_types, ","))

(* ------------------------------------------------------------------ *)
(* Text the user may type at each prompt                               *)
(* ------------------------------------------------------------------ *)
ChoiceInputs == {<<"1">>, <<" ", "2", " ">>, <<"3">>, <<>>}

NamingInputs == {<<"1">>, <<"2", " ">>, <<"3">>}

CountInputs ==
  {<<"5">>, <<"0">>, <<"-", "5">>, <<" ", "8", " ">>, <<"a", "b", "c">>,
   <<"1", "1", "6", "9", "9">>, <<"1", "1", "7", "0", "0">>,
   <<"2", "0", "0", "0", "0">>}

SizeInputs ==
  {<<"0">>, <<"0", ".", "0", "0", "1">>, <<"1", ".", "3", "9", "4">>,
   <<"1", ".", "3", "9", "5">>, <<"1", ".", "5">>,
   <<"-", "0", ".", "0", "0", "1">>, <<"x">>, <<>>}

ProceedInputs ==
  {<<"y", "e", "s">>, <<" ", "Y", "E", "S", " ">>, <<"n", "o">>, <<"y">>, <<>>}

FileTypeInputs ==
  {<<"0">>, <<"4">>, <<"1", ",", "1">>, <<"4", ",", "1">>, <<"1", ",", "7">>,
   <<"3", ",", "3">>, <<"4", ",", "4", ",", "4">>, <<"7">>,
   <<" ", "2", " ", ",", " ", "3">>, <<"0", ",", "1">>, <<>>}

(* ------------------------------------------------------------------ *)
(* State                                                               *)
(* ------------------------------------------------------------------ *)
VARIABLES
  pc,                      \* position of the run
  choice,                  \* user_input_options: choice
  file_naming_preference,  \* user_input_options: file_naming_preference
  file_size_mb,            \* user_input_options: file_size_mb, in thousandths
  num_records,             \* num_records
  have_count,              \* num_records has been assigned
  file_label,              \* file_label
  selected_file_types,     \* selected_file_types
  retval,                  \* the tuple user_input_options returned
  dirs,                    \* directories that exist
  fs,                      \* files that exist: path -> content
  data,                    \* the generated batch (its length)
  generated,               \* generate_data has returned
  gen_arg,                 \* the record_count generate_data was called with
  idx,                     \* position of the for loop over selected_file_types
  prompts,                 \* input() calls so far: prompt and raw answer
  out,                     \* diagnostics printed so far
  log,                     \* exporter calls so far
  pdf_n,                   \* export_to_pdf loop: len(data)
  pdf_i,                   \* export_to_pdf loop: items drawn
  height,                  \* export_to_pdf loop: height
  page,                    \* export_to_pdf loop: pages closed by showPage
  draws,                   \* export_to_pdf loop: drawString calls
  pdf_pc                   \* export_to_pdf loop: position

ctl_vars ==
  <<pc, choice, file_naming_preference, file_size_mb, num_records, have_count,
    file_label, selected_file_types, retval, dirs, fs, data, generated,
    gen_arg, idx, prompts, out, log>>

pdf_vars == <<pdf_n, pdf_i, height, page, draws, pdf_pc>>

vars == <<ctl_vars, pdf_vars>>

NoFiles == [p \in {} |-> 0]

InitCtl ==
  /\ pc = "choice"
  /\ choice = <<>>
  /\ file_naming_preference = <<>>
  /\ file_size_mb = 0
  /\ num_records = 0
  /\ have_count = FALSE
  /\ file_label = CustomLabel
  /\ selected_file_types = <<>>
  /\ retval = <<>>
  /\ dirs = {}
  /\ fs = NoFiles
  /\ data = 0
  /\ generated = FALSE
  /\ gen_arg = 0
  /\ idx = 0
  /\ prompts = <<>>
  /\ out = <<>>
  /\ log = <<>>

(* height = letter[1] - 30 *)
StartHeight == LetterHeight - TopMargin

InitPdfIdle ==
  /\ pdf_n = 0
  /\ pdf_i = 0
  /\ height = StartHeight
  /\ page = 0
  /\ draws = <<>>
  /\ pdf_pc = "idle"

Init == InitCtl /\ InitPdfIdle

(* ------------------------------------------------------------------ *)
(* user_input_options, one action per input() call                     *)
(* ------------------------------------------------------------------ *)
Asked(name, text) == Append(prompts, [prompt |-> name, answer |-> text])

(* return None, None *)
ReturnNone(msg) ==
  /\ out' = Append(out, msg)
  /\ retval' = <<"None", "None">>
  /\ pc' = "returned"

AskChoice ==
  /\ pc = "choice"
  /\ \E text \in ChoiceInputs :
       /\ choice' = Strip(text)
       /\ prompts' = Asked("choice", text)
       /\ IF Strip(text) \notin {<<"1">>, <<"2">>}
            THEN ReturnNone("Invalid choice. Please enter 1 or 2.")
            ELSE /\ pc' = "naming"
                 /\ UNCHANGED <<out, retval>>
  /\ UNCHANGED <<file_naming_preference, file_size_mb, num_records, have_count,
                 file_label, selected_file_types, dirs, fs, data, generated,
                 gen_arg, idx, log, pdf_vars>>

AskNaming ==
  /\ pc = "naming"
  /\ \E text \in NamingInputs :
       /\ file_naming_preference' = Strip(text)
       /\ prompts' = Asked("naming", text)
  /\ pc' = "value"
  /\ UNCHANGED <<choice, file_size_mb, num_records, have_count, file_label,
                 selected_file_types, retval, dirs, fs, data, generated,
                 gen_arg, idx, out, log, pdf_vars>>

(* After the try block: the large-operation test decides the next prompt. *)
AfterCount(n) == IF NeedsConfirm(n) THEN "confirm" ELSE "file_types"

AskCount ==
  /\ pc = "value"
  /\ choice = <<"1">>
  /\ \E text \in CountInputs :
       LET r == ParseInt(text)
       IN /\ prompts' = Asked("count", text)
          /\ IF r.ok
               THEN /\ num_records' = r.val
                    /\ have_count' = TRUE
                    /\ file_label' = CountModeLabel(file_naming_preference, r.val)
                    /\ pc' = AfterCount(r.val)
                    /\ UNCHANGED <<out, retval>>
               ELSE /\ ReturnNone("Invalid number entered.")
                    /\ UNCHANGED <<num_records, have_count, file_label>>
  /\ UNCHANGED <<choice, file_naming_preference, file_size_mb,
                 selected_file_types, dirs, fs, data, generated, gen_arg, idx,
                 log, pdf_vars>>

AskSize ==
  /\ pc = "value"
  /\ choice = <<"2">>
  /\ \E text \in SizeInputs :
       LET r == ParseFloat(text)
           n == SizeToRecords(r.val)
       IN /\ prompts' = Asked("size", text)
          /\ IF r.ok
               THEN /\ file_size_mb' = r.val
                    /\ num_records' = n
                    /\ have_count' = TRUE
                    /\ file_label' = SizeModeLabel(file_naming_preference, r.val, n)
                    /\ pc' = AfterCount(n)
                    /\ UNCHANGED <<out, retval>>
               ELSE /\ ReturnNone("Invalid number entered.")
                    /\ UNCHANGED <<file_size_mb, num_records, have_count,
                                   file_label>>
  /\ UNCHANGED <<choice, file_naming_preference, selected_file_types, dirs, fs,
                 data, generated, gen_arg, idx, log, pdf_vars>>

(* proceed = input(...).strip().lower(); if proceed != "yes" *)
Declined(text) == Lower(Strip(text)) # <<"y", "e", "s">>

AskProceed ==
  /\ pc = "confirm"
  /\ \E text \in ProceedInputs :
       /\ prompts' = Asked("proceed", text)
       /\ IF Declined(text)
            THEN ReturnNone("Operation canceled.")
            ELSE /\ pc' = "file_types"
                 /\ UNCHANGED <<out, retval>>
  /\ UNCHANGED <<choice, file_naming_preference, file_size_mb, num_records,
                 have_count, file_label, selected_file_types, dirs, fs, data,
                 generated, gen_arg, idx, log, pdf_vars>>

(* return num_records, file_label, selected_file_types *)
AskFileTypes ==
  /\ pc = "file_types"
  /\ \E text \in FileTypeInputs :
       /\ prompts' = Asked("file_types", text)
       /\ selected_file_types' = SelectedFileTypes(Strip(text))
       /\ retval' = <<num_records, file_label, SelectedFileTypes(Strip(text))>>
  /\ pc' = "returned"
  /\ UNCHANGED <<choice, file_naming_preference, file_size_mb, num_records,
                 have_count, file_label, dirs, fs, data, generated, gen_arg,
                 idx, out, log, pdf_vars>>

(* ------------------------------------------------------------------ *)
(* __main__                                                            *)
(* ------------------------------------------------------------------ *)

(* num_records, file_label, selected_file_types = user_input_options()   *)
(* A tuple of any other length raises ValueError, which nothing catches. *)
Unpackable(t) == Len(t) = 3

(* if num_records is not None and file_label is not None and selected_file_types *)
MainUnpack ==
  /\ pc = "returned"
  /\ pc' = IF ~Unpackable(retval) THEN "crashed"
           ELSE IF retval[3] # <<>> THEN "setup"
           ELSE "done"
  /\ UNCHANGED <<choice, file_naming_preference, file_size_mb, num_records,
                 have_count, file_label, selected_file_types, retval, dirs, fs,
                 data, generated, gen_arg, idx, prompts, out, log, pdf_vars>>

setup_directories ==
  /\ pc = "setup"
  /\ dirs' = dirs \cup {d \in FormatDirs \cup {base_path} : d \notin dirs}
  /\ pc' = "generate"
  /\ UNCHANGED <<choice, file_naming_preference, file_size_mb, num_records,
                 have_count, file_label, selected_file_types, retval, fs, data,
                 generated, gen_arg, idx, prompts, out, log, pdf_vars>>

GenerateData ==
  /\ pc = "generate"
  /\ gen_arg' = num_records
  /\ data' = generate_data(num_records)
  /\ generated' = TRUE
  /\ idx' = 1
  /\ pc' = "export"
  /\ UNCHANGED <<choice, file_naming_preference, file_size_mb, num_records,
                 have_count, file_label, selected_file_types, retval, dirs, fs,
                 prompts, out, log, pdf_vars>>

(* Mutant of CurrentFileType: the loop walks the selection in sorted order. *)
CurrentFileTypeSorted(sel, i) == SortSeq(sel, LAMBDA a, b : a < b)[i]

(* for file_type in selected_file_types: the item of the current iteration *)
CurrentFileType(sel, i) == sel[i]

(* filename = f'customer_responses_{file_label}.{extension}' *)
TargetName(k) == FileName(file_label, file_types_functions(k).ext)

WriteFile(path, content) ==
  [p \in DOMAIN fs \cup {path} |-> IF p = path THEN content ELSE fs[p]]

(* One iteration of the for loop has called exporter func and it returned. *)
Exported(func, k, written, reported) ==
  /\ fs' = WriteFile(written, [func |-> func, records |-> data])
  /\ log' = Append(log, [func |-> func,
                         code |-> k,
                         requested |-> Join(file_types_functions(k).dir, TargetName(k)),
                         path |-> written,
                         reported |-> reported,
                         before |-> DOMAIN fs,
                         records |-> data])
  /\ idx' = idx + 1
  /\ pc' = IF idx + 1 > Len(selected_file_types) THEN "done" ELSE "export"
  /\ UNCHANGED <<choice, file_naming_preference, file_size_mb, num_records,
                 have_count, file_label, selected_file_types, retval, dirs,
                 data, generated, gen_arg, prompts, out, pdf_vars>>

Dispatch(func) ==
  /\ pc = "export"
  /\ idx <= Len(selected_file_types)
  /\ file_types_functions(CurrentFileType(selected_file_types, idx)).func = func

export_to_excel ==
  /\ Dispatch("export_to_excel")
  /\ LET k == CurrentFileType(selected_file_types, idx)
         directory == file_types_functions(k).dir
         filename == TargetName(k)
         filepath == FilepathLoop(DOMAIN fs, directory, filename,
                                  Join(directory, filename), 1)
     IN Exported("export_to_excel", k, filepath, filepath)

export_to_word ==
  /\ Dispatch("export_to_word")
  /\ LET k == CurrentFileType(selected_file_types, idx)
         directory == file_types_functions(k).dir
         filename == TargetName(k)
         filepath == FilepathLoop(DOMAIN fs, directory, filename,
                                  Join(directory, filename), 1)
     IN Exported("export_to_word", k, filepath, filepath)

(* The canvas is created from the caller's filename before the collision *)
(* loop runs; c.save() writes there; the print shows the loop's filename. *)
(* The layout of the pages is the loop PdfDrawItem below.                 *)
export_to_pdf ==
  /\ Dispatch("export_to_pdf")
  /\ LET k == CurrentFileType(selected_file_types, idx)
         directory == file_types_functions(k).dir
         filename == TargetName(k)
         c == PdfCanvasPath(directory, filename)
         resolved == FilenameLoop(DOMAIN fs, directory, filename, 1)
     IN Exported("export_to_pdf", k, c, BareName(resolved))

export_to_text ==
  /\ Dispatch("export_to_text")
  /\ LET k == CurrentFileType(selected_file_types, idx)
         directory == file_types_functions(k).dir
         filename == TargetName(k)
         resolved == FilenameLoop(DOMAIN fs, directory, filename, 1)
     IN Exported("export_to_text", k, Join(directory, resolved),
                 BareName(resolved))

Next ==
  \/ AskChoice
  \/ AskNaming
  \/ AskCount
  \/ AskSize
  \/ AskProceed
  \/ AskFileTypes
  \/ MainUnpack
  \/ setup_directories
  \/ GenerateData
  \/ export_to_excel
  \/ export_to_word
  \/ export_to_pdf
  \/ export_to_text

Spec == Init /\ [][Next]_vars

(* ------------------------------------------------------------------ *)
(* The page-layout loop of export_to_pdf, one action per item          *)
(* ------------------------------------------------------------------ *)

(* Mutant of NextHeight: an entry is taken to be five lines high. *)
NextHeightFiveLines(h) == h - LineHeight * (LinesPerEntry - 1)

(* height -= 15 * 6 *)
NextHeight(h) == h - LineHeight * LinesPerEntry

(* if height < 100 *)
NeedsNewPage(h) == h < BottomLimit

InitPdf ==
  /\ InitCtl
  /\ pdf_n \in 0..MaxBatch
  /\ pdf_i = 0
  /\ height = StartHeight
  /\ page = 0
  /\ draws = <<>>
  /\ pdf_pc = "loop"

(* c.drawString(30, height, text), then the cursor moves, then the page test *)
PdfDrawItem ==
  /\ pdf_pc = "loop"
  /\ pdf_i < pdf_n
  /\ draws' = Append(draws, [item |-> pdf_i, page |-> page,
                             x |-> LeftMargin, y |-> height])
  /\ IF NeedsNewPage(NextHeight(height))
       THEN /\ page' = page + 1
            /\ height' = StartHeight
       ELSE /\ height' = NextHeight(height)
            /\ page' = page
  /\ pdf_i' = pdf_i + 1
  /\ UNCHANGED <<pdf_n, pdf_pc, ctl_vars>>

(* c.save() *)
PdfSave ==
  /\ pdf_pc = "loop"
  /\ pdf_i = pdf_n
  /\ pdf_pc' = "saved"
  /\ UNCHANGED <<pdf_n, pdf_i, height, page, draws, ctl_vars>>

NextPdf == PdfDrawItem \/ PdfSave

SpecPdf == InitPdf /\ [][NextPdf]_vars

(* ------------------------------------------------------------------ *)
(* Properties                                                          *)
(* ------------------------------------------------------------------ *)
Range(seq) == {seq[i] : i \in 1..Len(seq)}

PromptIndex(name) == {i \in 1..Len(prompts) : prompts[i].prompt = name}

Yes == <<"y", "e", "s">>

(* The requested name carrying the single disambiguator (k), or none for k = 0. *)
Candidate(requested, k) ==
  [dir |-> requested.dir,
   name |-> [label |-> requested.name.label,
             dis |-> IF k = 0 THEN <<>> ELSE <<k>>,
             ext |-> requested.name.ext]]

(* C1: an exporter call never writes to a path that existed before the call, *)
(* and two successive calls of one exporter with the same directory and      *)
(* filename leave two distinct files, the second carrying the suffix (1).    *)
C1_NeverOverwrites ==
  /\ \A i \in 1..Len(log) : log[i].path \notin log[i].before
  /\ \A i \in 1..(Len(log) - 1) :
       ( /\ log[i].func = log[i + 1].func
         /\ log[i].requested = log[i + 1].requested
         /\ log[i].requested \notin log[i].before )
       => /\ log[i].path = log[i].requested
          /\ log[i + 1].path = Candidate(log[i].requested, 1)
          /\ {log[i].path, log[i + 1].path} \subseteq DOMAIN fs

(* C2: a count of 11700 or more is confirmed before the format prompt; an   *)
(* answer that is not "yes" after trimming and lower-casing leaves no       *)
(* directory, no batch and no file; a count below 11700 is never confirmed. *)
C2_ConfirmationGate ==
  /\ (have_count /\ num_records >= 11700)
       => /\ pc = "confirm" \/ PromptIndex("proceed") # {}
          /\ \A j \in PromptIndex("file_types") :
               \E i \in PromptIndex("proceed") : i < j
  /\ \A i \in PromptIndex("proceed") :
       Lower(Strip(prompts[i].answer)) # Yes
         => /\ dirs = {}
            /\ ~generated
            /\ log = <<>>
            /\ DOMAIN fs = {}
            /\ PromptIndex("file_types") = {}
            /\ pc \in {"returned", "crashed", "done"}
  /\ (have_count /\ num_records < 11700)
       => /\ pc # "confirm"
          /\ PromptIndex("proceed") = {}

(* C2 witness: 20000 records were asked for, the confirmation was answered *)
(* "no", and the run has ended.                                             *)
C2_Witness ==
  /\ have_count
  /\ num_records = 20000
  /\ \E i \in PromptIndex("proceed") : prompts[i].answer = <<"n", "o">>
  /\ pc \in {"crashed", "done"}

(* What the claims call invalid text at a prompt: a format selection is *)
(* invalid when one of its comma-separated codes is not in 0..4.        *)
InvalidCode(piece) ==
  /\ Strip(piece) # <<>>
  /\ ~(IsDigitStr(Strip(piece)) /\ DigitsValue(Strip(piece)) \in 0..4)

InvalidAnswer(p) ==
  CASE p.prompt = "choice" -> Strip(p.answer) \notin {<<"1">>, <<"2">>}
    [] p.prompt = "naming" -> Strip(p.answer) \notin {<<"1">>, <<"2">>}
    [] p.prompt = "count" -> ~ParseInt(p.answer).ok
    [] p.prompt = "size" -> ~ParseFloat(p.answer).ok
    [] p.prompt = "file_types" ->
         \E piece \in Range(Split(Strip(p.answer), ",")) : InvalidCode(piece)
    [] OTHER -> FALSE

(* C3: any invalid text at a prompt aborts the run: no exporter is invoked, *)
(* and the run ends with a diagnostic printed.                              *)
C3_InvalidInputAborts ==
  (\E i \in 1..Len(prompts) : InvalidAnswer(prompts[i]))
    => /\ log = <<>>
       /\ pc \notin {"setup", "generate", "export"}
       /\ pc \in {"done", "crashed"} => out # <<>>

MenuExporter ==
  <<"export_to_excel", "export_to_word", "export_to_pdf", "export_to_text">>

(* C4 as stated: the exporters run in the order Excel, Word, PDF, Text    *)
(* whatever order the codes were typed in, after provisioning and after   *)
(* generation.                                                            *)
C4_FixedOrder ==
  /\ \A i, j \in 1..Len(log) : i < j => log[i].code <= log[j].code
  /\ log # <<>> => (generated /\ FormatDirs \subseteq dirs)

(* C4 amended: the exporters run one at a time in the order the valid     *)
(* codes were typed (Excel, Word, PDF, Text for "0"), once per typed      *)
(* code, after provisioning and after the whole batch has been generated. *)
C4_TypedOrder ==
  /\ log # <<>> =>
       /\ generated
       /\ FormatDirs \subseteq dirs
       /\ pc \in {"export", "done"}
       /\ Len(log) = idx - 1
       /\ \A i \in 1..Len(log) : log[i].records = data
  /\ \A j \in PromptIndex("file_types") :
       LET typed == SelectedFileTypes(Strip(prompts[j].answer))
       IN /\ Len(log) <= Len(typed)
          /\ \A i \in 1..Len(log) : log[i].func = MenuExporter[typed[i]]
          /\ pc = "done" /\ generated => Len(log) = Len(typed)

(* C4 witness: "4,1" was typed and the run ended with Text exported first. *)
C4_Witness ==
  /\ pc = "done"
  /\ Len(log) = 2
  /\ log[1].func = "export_to_text"
  /\ log[2].func = "export_to_excel"
  /\ \E j \in PromptIndex("file_types") : prompts[j].answer = <<"4", ",", "1">>

FilesIn(directory) == {p \in DOMAIN fs : p.dir = directory}

(* C5: a finished run has written exactly one file for each distinct      *)
(* selected format and none for the others, each holding the run's batch. *)
C5_OneFilePerFormat ==
  (pc = "done" /\ generated)
    => /\ \A k \in 1..4 :
            Cardinality(FilesIn(file_types_functions(k).dir))
              = IF k \in Range(selected_file_types) THEN 1 ELSE 0
       /\ \A p \in DOMAIN fs : fs[p].records = data
       /\ \A i \in 1..Len(log) : log[i].path \notin log[i].before

(* C6: no abort path ends in an uncaught error: whatever user_input_options *)
(* returns, the main block consumes it without raising.                     *)
C6_NoUncaughtError == pc # "crashed"

(* C7: in size mode a non-negative size s (in MB) yields                   *)
(* floor(s * 1048576 / 125) records: 0 for size 0, which is accepted, 8    *)
(* for size 0.001, and never fewer than a smaller size yields.             *)
C7_SizeEstimate ==
  (choice = <<"2">> /\ have_count /\ file_size_mb >= 0)
    => /\ num_records = (file_size_mb * 1048576) \div (125 * 1000)
       /\ file_size_mb = 0 => (num_records = 0 /\ out = <<>>)
       /\ file_size_mb = 1 => num_records = 8
       /\ \A text \in SizeInputs :
            LET r == ParseFloat(text)
            IN (r.ok /\ 0 <= r.val /\ r.val <= file_size_mb)
                 => (r.val * 1048576) \div (125 * 1000) <= num_records

(* C7 witness: size 0.001 was entered and 8 records were derived. *)
C7_Witness ==
  /\ choice = <<"2">>
  /\ have_count
  /\ file_size_mb = 1
  /\ num_records = 8
  /\ pc = "file_types"

(* The number of leading names base, base(1), base(2), ... that existed. *)
Taken(requested, before) ==
  CHOOSE k \in 0..Cardinality(before) :
    /\ Candidate(requested, k) \notin before
    /\ \A j \in 0..(k - 1) : Candidate(requested, j) \in before

(* C8: when base.ext and base(1).ext .. base(k-1).ext exist, the exporter  *)
(* writes base(k).ext: one disambiguator, never stacked, and the name it   *)
(* reports is the name it wrote.                                           *)
C8_SingleDisambiguator ==
  \A i \in 1..Len(log) :
    /\ log[i].path = Candidate(log[i].requested,
                               Taken(log[i].requested, log[i].before))
    /\ Len(log[i].path.name.dis) <= 1
    /\ log[i].reported.name = log[i].path.name

(* C9: the cursor starts at 762, item i (0-based) is drawn on page        *)
(* floor(i / 8) at cursor 762 - 90 * (i mod 8), which lies in [100, 762], *)
(* items are drawn in batch order, and between items the cursor is 762    *)
(* less 90 for each item already on the page.                             *)
C9_PdfLayout ==
  /\ Len(draws) = pdf_i
  /\ pdf_i <= pdf_n
  /\ height = 762 - 90 * (pdf_i % 8)
  /\ page = pdf_i \div 8
  /\ \A j \in 1..Len(draws) :
       /\ draws[j].item = j - 1
       /\ draws[j].page = (j - 1) \div 8
       /\ draws[j].y = 762 - 90 * ((j - 1) % 8)
       /\ draws[j].y >= 100
       /\ draws[j].y <= 762

(* C9 witness: a batch of 17 items has been saved on three pages. *)
C9_Witness ==
  /\ pdf_pc = "saved"
  /\ pdf_n = 17
  /\ Len(draws) = 17
  /\ draws[17].page = 2
  /\ draws[17].y = 762
  /\ draws[8].y = 132

(* C10: the count handed to generate_data is never negative, the batch    *)
(* holds exactly that many records, and a file named                      *)
(* customer_responses_<n>_records.<ext> holds exactly n records.          *)
C10_CountMatchesBatch ==
  /\ generated => (gen_arg >= 0 /\ data = gen_arg)
  /\ \A p \in DOMAIN fs :
       p.name.label.kind = "records" => fs[p].records = p.name.label.n

====
